---- MODULE Spec2Model ----
(***************************************************************************)
(* FinAgent: the LangGraph agent of chatbot.py (chat_node <-> tools loop,  *)
(* MongoDB checkpointer, process_input_stream), the /chat endpoint of      *)
(* main.py and the tools of tool.py.                                       *)
(*                                                                         *)
(* The graph, the checkpointer and the ToolNode are used as the library    *)
(* provides them: a run loads the latest checkpoint of its thread once and *)
(* writes a checkpoint of its own messages after the input and after every *)
(* superstep; a new input on a thread starts the graph at chat_node; the   *)
(* ToolNode runs the calls of a response concurrently, returns one message *)
(* per call in call order and turns an exception of a tool into an error   *)
(* message; stream_mode="messages" delivers the chunks of the model and    *)
(* the messages a node returns; a run stops with GraphRecursionError after *)
(* 25 supersteps.                                                          *)
(***************************************************************************)
EXTENDS Integers, Sequences, FiniteSets, TLC

(***************************************************************************)
(* Bounds of the model.                                                    *)
(***************************************************************************)
\* largest number of tool calls in one model response
MaxCalls == 2
\* largest expense amount passed to a tool
MaxAmount == 1

Sessions == {"u1", "u2"}
\* the /chat requests that are submitted
Requests == {"r1", "r2"}

(***************************************************************************)
(* tool.py: the tools.                                                     *)
(***************************************************************************)
\* chatbot.py:33, the tools bound to the model and served by the ToolNode
tools ==
  {"add_expense_tool", "query_expenses_tool", "expense_summary_tool",
   "add_goal_tool", "generate_spending_feedback", "get_stock_price",
   "search_with_serper"}

\* state of the service a tool talks to (MongoDB, Alpha Vantage, Serper):
\* it answers, it answers without acknowledging the write, or the call fails
Downstream == {"ok", "unack", "fail"}

Amounts == (0 - 1)..MaxAmount

\* the arguments of a tool-call request
ToolArgs ==
  [user_id : Sessions, amount : Amounts, goal_text : {"save"}]

\* the fields the args_schema of a tool declares (tool.py:25-46); a tool
\* decorated with a bare @tool gets its schema from the function signature
args_schema(name) ==
  CASE name = "add_expense_tool" -> {"user_id", "amount", "category", "description"}
    [] name = "query_expenses_tool" -> {"user_id", "category", "period_days"}
    [] name = "expense_summary_tool" -> {"user_id", "period_days"}
    [] name = "add_goal_tool" -> {"user_id"}
    [] name = "get_stock_price" -> {"symbol"}
    [] name = "search_with_serper" -> {"query"}
    [] OTHER -> {"total_spent", "by_category", "category_percentages", "period_days"}

\* the parameters without a default of the tool function
required_params(name) ==
  CASE name = "add_expense_tool" -> {"user_id", "amount", "category"}
    [] name = "query_expenses_tool" -> {"user_id"}
    [] name = "expense_summary_tool" -> {"user_id"}
    [] name = "add_goal_tool" -> {"user_id", "goal_text"}
    [] name = "get_stock_price" -> {"symbol"}
    [] name = "search_with_serper" -> {"query"}
    [] OTHER -> {"total_spent", "by_category", "category_percentages", "period_days"}

\* what an invocation of a tool produces: it raises, or it returns a value
\* that is the {status, data, message} envelope or something else;
\* insert is the record written to a collection, <<>> when none is
Envelope(st, ins) ==
  [raised |-> FALSE, envelope |-> TRUE, status |-> st, insert |-> ins]
Raw ==
  [raised |-> FALSE, envelope |-> FALSE, status |-> "none", insert |-> <<>>]
Raised ==
  [raised |-> TRUE, envelope |-> FALSE, status |-> "none", insert |-> <<>>]

\* tool.py:66-115
add_expense_tool(args, ds) ==
  IF args.amount <= 0 THEN Envelope("error", <<>>)
  ELSE IF ds = "fail" THEN Envelope("error", <<>>)
  ELSE IF ds = "ok"
       THEN Envelope("success", <<"expenses", args.user_id, args.amount>>)
       ELSE Envelope("error", <<"expenses", args.user_id, args.amount>>)

\* tool.py:118-162
query_expenses_tool(args, ds) ==
  IF ds = "fail" THEN Envelope("error", <<>>) ELSE Envelope("success", <<>>)

\* tool.py:165-224
expense_summary_tool(args, ds) ==
  IF ds = "fail" THEN Envelope("error", <<>>) ELSE Envelope("success", <<>>)

\* tool.py:293-328
add_goal_tool(args, ds) ==
  IF ds = "fail" THEN Envelope("error", <<>>)
  ELSE IF ds = "ok"
       THEN Envelope("success", <<"goals", args.user_id, args.goal_text>>)
       ELSE Envelope("error", <<"goals", args.user_id, args.goal_text>>)

\* tool.py:331-338: no try, the reply of the service is returned as it is
get_stock_price(args, ds) ==
  IF ds = "fail" THEN Raised ELSE Raw

\* tool.py:370-384: no try, the text of the search is returned
search_with_serper(args, ds) ==
  IF ds = "fail" THEN Raised ELSE Raw

\* tool.py:227-289: a plain function returning the feedback text
generate_spending_feedback(args, ds) == Raw

\* the function behind a tool name
tool_func(name, args, ds) ==
  CASE name = "add_expense_tool" -> add_expense_tool(args, ds)
    [] name = "query_expenses_tool" -> query_expenses_tool(args, ds)
    [] name = "expense_summary_tool" -> expense_summary_tool(args, ds)
    [] name = "add_goal_tool" -> add_goal_tool(args, ds)
    [] name = "get_stock_price" -> get_stock_price(args, ds)
    [] name = "search_with_serper" -> search_with_serper(args, ds)
    [] OTHER -> generate_spending_feedback(args, ds)

\* invocation of a tool: the arguments are validated against the tool's
\* args_schema and only the declared fields are passed on to the function;
\* a required parameter the schema does not declare is missing at the call,
\* which raises TypeError before the function body (and its try) is entered
tool_invoke(name, args, ds) ==
  IF required_params(name) \subseteq args_schema(name)
  THEN tool_func(name, args, ds)
  ELSE Raised

(***************************************************************************)
(* chatbot.py: state of the agent.                                         *)
(***************************************************************************)
VARIABLES
  store,     \* checkpointer: thread_id -> messages of the latest checkpoint
  req,       \* the /chat requests: position and graph state of each turn
  results,   \* ToolNode: outcome of each tool call of the running dispatch
  stream,    \* fragments process_input_stream has yielded to each caller
  tin,       \* a tool invocation on its own: tool, arguments, downstream
  tout       \* and what it produced

vars == <<store, req, results, stream, tin, tout>>

\* supersteps a run of the graph may take before GraphRecursionError is
\* raised: the config of chatbot.py:93 sets no recursion_limit, so the
\* default of the library applies
RecursionLimit == 25

\* the tools the model of this development asks for
ModelTools == {"add_expense_tool", "get_stock_price"}

NoCalls == <<>>
NoId == <<>>

SystemMessage(r) ==
  [role |-> "system", turn |-> r, content |-> "prompt", calls |-> NoCalls,
   tool_call_id |-> NoId]
HumanMessage(r) ==
  [role |-> "human", turn |-> r, content |-> "user_text", calls |-> NoCalls,
   tool_call_id |-> NoId]
AIMessage(r, text, calls) ==
  [role |-> "ai", turn |-> r, content |-> IF text THEN "text" ELSE "",
   calls |-> calls, tool_call_id |-> NoId]
ToolMessage(r, id, content) ==
  [role |-> "tool", turn |-> r, content |-> content, calls |-> NoCalls,
   tool_call_id |-> id]

\* the tool calls of a model response: n calls of one tool with one user_id,
\* with ids unique within the turn
ToolCalls(r, round, n, name, uid) ==
  [i \in 1..n |-> [id |-> <<r, round, i>>, name |-> name, user_id |-> uid]]

\* what the model may answer: a failure (possibly after some text was
\* streamed), a final text, or tool calls (a response of the chat model that
\* carries tool calls has an empty content)
Failure == [kind |-> "fail", text |-> FALSE, n |-> 0, name |-> "", user_id |-> ""]
Answer == [kind |-> "ai", text |-> TRUE, n |-> 0, name |-> "", user_id |-> ""]
FinalResponses ==
  {Answer, Failure, [Failure EXCEPT !.text = TRUE]}
\* (get_stock_price takes a symbol and no user_id)
CallResponses ==
  [kind : {"ai"}, text : {FALSE}, n : 1..MaxCalls,
   name : {"add_expense_tool"}, user_id : Sessions]
  \cup [kind : {"ai"}, text : {FALSE}, n : 1..MaxCalls,
        name : {"get_stock_price"}, user_id : {""}]
\* the model that keeps asking for the same single tool call
LoopResponses ==
  {Answer, Failure,
   [kind |-> "ai", text |-> FALSE, n |-> 1, name |-> "add_expense_tool",
    user_id |-> "u1"]}

Idle ==
  [pc |-> "idle", sid |-> "", msgs |-> <<>>, step |-> 0, round |-> 0,
   connected |-> TRUE, base |-> 0, ds |-> "ok"]

NoTool ==
  [name |-> "none", args |-> [user_id |-> "u1", amount |-> 0, goal_text |-> "save"],
   ds |-> "ok"]
NoResult ==
  [raised |-> FALSE, envelope |-> FALSE, status |-> "pending", insert |-> <<>>]

Init ==
  /\ store = [s \in Sessions |-> <<>>]
  /\ req = [r \in Requests |-> Idle]
  /\ results = [r \in Requests |-> <<>>]
  /\ stream = [r \in Requests |-> <<>>]
  /\ tin = NoTool
  /\ tout = NoResult

\* a reducer that keeps one system prompt per thread
add_messages_one_prompt(left, right) ==
  left \o SelectSeq(right, LAMBDA m : m.role # "system" \/ left = <<>>)

\* chatbot.py:39-40, the add_messages reducer: the new messages carry no id,
\* so each gets a fresh one and is appended
add_messages(left, right) == left \o right

\* a turn whose generator is still being driven
Active(r) == req[r].pc \in {"chat", "tools", "dispatch"}

\* the except clause of chatbot.py:99-100: the error text is yielded and the
\* generator ends. A caller that has gone is never handed the fragment.
Except(r) ==
  /\ req' = [req EXCEPT ![r].pc = "done"]
  /\ stream' = [stream EXCEPT ![r] =
                  IF req[r].connected THEN Append(@, "error") ELSE @]

\* a stream that runs every session on one fixed thread
process_input_stream_one_thread(r, session_id) ==
  /\ req[r].pc = "idle"
  /\ LET input_payload == <<SystemMessage(r), HumanMessage(r)>>
         msgs == add_messages(store["u1"], input_payload)
     IN /\ req' = [req EXCEPT ![r] =
                     [pc |-> "chat", sid |-> session_id, msgs |-> msgs,
                      step |-> 0, round |-> 0, connected |-> TRUE,
                      base |-> Len(store["u1"]), ds |-> "ok"]]
        /\ store' = [store EXCEPT !["u1"] = msgs]
  /\ UNCHANGED <<results, stream, tin, tout>>

\* chatbot.py:87-95 and main.py:7-16: a /chat request starts the stream of
\* the agent on thread session_id: the latest checkpoint of the thread is
\* loaded, the input messages are added to it and the input checkpoint is
\* written
process_input_stream(r, session_id) ==
  /\ req[r].pc = "idle"
  /\ LET input_payload == <<SystemMessage(r), HumanMessage(r)>>
         msgs == add_messages(store[session_id], input_payload)
     IN /\ req' = [req EXCEPT ![r] =
                     [pc |-> "chat", sid |-> session_id, msgs |-> msgs,
                      step |-> 0, round |-> 0, connected |-> TRUE,
                      base |-> Len(store[session_id]), ds |-> "ok"]]
        /\ store' = [store EXCEPT ![session_id] = msgs]
  /\ UNCHANGED <<results, stream, tin, tout>>

\* the tool calls the tools node is to serve: those of the last message
PendingCalls(r) == req[r].msgs[Len(req[r].msgs)].calls

\* a loop that stops two supersteps late
OutOfSteps_late(r) == req[r].step >= RecursionLimit + 2

\* the loop of the graph stops with GraphRecursionError once RecursionLimit
\* supersteps have run
OutOfSteps(r) == req[r].step >= RecursionLimit

\* a failure handler that records what was streamed as an assistant message
ModelFails_persist(r, resp) ==
  LET msgs == add_messages(req[r].msgs, <<AIMessage(r, TRUE, NoCalls)>>)
  IN /\ req' = [req EXCEPT ![r].pc = "done", ![r].msgs = msgs]
     /\ store' = [store EXCEPT ![req[r].sid] = msgs]
     /\ stream' = [stream EXCEPT ![r] =
                     IF req[r].connected THEN Append(@, "error") ELSE @]
     /\ UNCHANGED results

\* chatbot.py:48 with 99-100, the model invocation fails: the text streamed
\* before the failure was yielded, the exception leaves chat_node and the
\* graph, and the except clause yields the error text; nothing is written
ModelFails(r, resp) ==
  /\ req' = [req EXCEPT ![r].pc = "done"]
  /\ stream' = [stream EXCEPT ![r] =
                  IF req[r].connected
                  THEN @ \o (IF resp.text THEN <<"model">> ELSE <<>>)
                         \o <<"error">>
                  ELSE @]
  /\ UNCHANGED <<store, results>>

\* chatbot.py:47-49 with 95-98, the model responds: its text is yielded as
\* it arrives, the response is added to the messages and the checkpoint is
\* written; the tools_condition edge (chatbot.py:76) leads to the tools node
\* when the response carries tool calls and to END otherwise
ModelResponds(r, resp) ==
  LET calls == ToolCalls(r, req[r].round, resp.n, resp.name, resp.user_id)
      response == AIMessage(r, resp.text, calls)
      msgs == add_messages(req[r].msgs, <<response>>)
  IN /\ req' = [req EXCEPT ![r].msgs = msgs,
                           ![r].step = @ + 1,
                           ![r].pc = IF resp.n = 0 THEN "done" ELSE "tools"]
     /\ store' = [store EXCEPT ![req[r].sid] = msgs]
     /\ stream' = [stream EXCEPT ![r] =
                     IF resp.text THEN Append(@, "model") ELSE @]
     /\ UNCHANGED results

\* the generator is suspended for good at the first yield that follows the
\* caller's disconnection: the step that yields is cut before its checkpoint
Suspended(r) ==
  /\ req' = [req EXCEPT ![r].pc = "closed", ![r].ds = "ok"]
  /\ UNCHANGED <<store, stream>>

\* chatbot.py:45-49 with 94-100, one superstep of chat_node
chat_node(r, resp) ==
  /\ req[r].pc = "chat"
  /\ IF OutOfSteps(r) THEN Except(r) /\ UNCHANGED <<store, results>>
     ELSE IF resp.kind = "fail" THEN ModelFails(r, resp)
     ELSE IF resp.text /\ ~req[r].connected
          THEN Suspended(r) /\ UNCHANGED results
          ELSE ModelResponds(r, resp)
  /\ UNCHANGED <<tin, tout>>

\* a tool call that has not ended
Pending == [content |-> "pending", rank |-> 0, user_id |-> ""]

\* chatbot.py:51 and 73, the tools node is entered: its tool calls are
\* handed to the workers of the ToolNode; ds is the state the services the
\* tools talk to are in while the dispatch lasts
tool_node_start(r, ds) ==
  /\ req[r].pc = "tools"
  /\ IF OutOfSteps(r)
     THEN Except(r) /\ UNCHANGED results
     ELSE /\ req' = [req EXCEPT ![r].pc = "dispatch", ![r].ds = ds]
          /\ results' = [results EXCEPT ![r] =
                           [i \in 1..Len(PendingCalls(r)) |-> Pending]]
          /\ UNCHANGED stream
  /\ UNCHANGED <<store, tin, tout>>

\* the content of the ToolMessage the ToolNode makes of a tool's outcome: an
\* exception is caught and becomes an error text (handle_tool_errors), a
\* returned value is serialised into the content
tool_content(out) ==
  IF out.raised THEN "tool_error"
  ELSE IF out.envelope THEN out.status ELSE "raw"

\* the arguments the ToolNode passes to the tool: those of the request
call_args(r, call) ==
  [user_id |-> call.user_id, amount |-> MaxAmount, goal_text |-> "save"]

\* the number of tool calls of the dispatch that have ended
Ended(r) == Cardinality({i \in DOMAIN results[r] : results[r][i] # Pending})

\* chatbot.py:51, one tool call of the dispatch runs to its end; the calls of
\* a dispatch run concurrently and end in any order (rank), each invoked
\* with the user_id of its arguments
run_tool(r, i) ==
  /\ req[r].pc = "dispatch"
  /\ i \in DOMAIN results[r]
  /\ results[r][i] = Pending
  /\ LET call == PendingCalls(r)[i]
         args == call_args(r, call)
     IN results' = [results EXCEPT ![r][i] =
                      [content |->
                         tool_content(tool_invoke(call.name, args, req[r].ds)),
                       rank |-> Ended(r) + 1,
                       user_id |-> args.user_id]]
  /\ UNCHANGED <<store, req, stream, tin, tout>>

\* a ToolNode that returns the messages in the order the calls ended in
tool_outputs_as_completed(r, calls, res) ==
  [k \in 1..Len(calls) |->
     LET i == CHOOSE j \in 1..Len(calls) : res[j].rank = k
     IN ToolMessage(r, calls[i].id, res[i].content)]

\* the messages the ToolNode returns: one per tool call, in the order of the
\* calls
tool_outputs(r, calls, res) ==
  [i \in 1..Len(calls) |-> ToolMessage(r, calls[i].id, res[i].content)]

\* chatbot.py:51 with 77 and 94-98, the tools node ends once every call has:
\* its messages are streamed like any other (their content is not empty, so
\* each is yielded), added to the messages and the checkpoint is written;
\* the edge leads back to chat_node
tool_node_join(r) ==
  /\ req[r].pc = "dispatch"
  /\ \A i \in DOMAIN results[r] : results[r][i] # Pending
  /\ IF ~req[r].connected
     THEN Suspended(r)
     ELSE LET outputs == tool_outputs(r, PendingCalls(r), results[r])
              msgs == add_messages(req[r].msgs, outputs)
          IN /\ req' = [req EXCEPT ![r].msgs = msgs,
                                   ![r].step = @ + 1,
                                   ![r].round = @ + 1,
                                   ![r].ds = "ok",
                                   ![r].pc = "chat"]
             /\ store' = [store EXCEPT ![req[r].sid] = msgs]
             /\ stream' = [stream EXCEPT ![r] =
                             @ \o [i \in 1..Len(outputs) |-> "tool"]]
  /\ results' = [results EXCEPT ![r] = <<>>]
  /\ UNCHANGED <<tin, tout>>

\* main.py:13-16, the caller of a StreamingResponse goes away: the response
\* stops pulling the generator
Disconnect(r) ==
  /\ Active(r)
  /\ req[r].connected
  /\ req' = [req EXCEPT ![r].connected = FALSE]
  /\ UNCHANGED <<store, results, stream, tin, tout>>

\* the process dies: every running turn is gone, the checkpoints stay
Crash ==
  /\ \E r \in Requests : Active(r)
  /\ req' = [r \in Requests |->
               IF Active(r) THEN [req[r] EXCEPT !.pc = "crashed", !.ds = "ok"]
               ELSE req[r]]
  /\ results' = [r \in Requests |-> <<>>]
  /\ UNCHANGED <<store, stream, tin, tout>>

\* the answers of the model in Spec: tool calls of any shape in the first
\* round trip of a turn, an answer or a failure after it
Responses(r) ==
  IF req[r].round = 0 THEN FinalResponses \cup CallResponses
  ELSE FinalResponses

\* Spec: the requests arrive one after the other, a turn starting when no
\* other is running
Next ==
  \/ \E r \in Requests, s \in Sessions :
       (\A q \in Requests : ~Active(q)) /\ process_input_stream(r, s)
  \/ \E r \in Requests : \E resp \in Responses(r) : chat_node(r, resp)
  \/ \E r \in Requests, ds \in {"ok", "fail"} : tool_node_start(r, ds)
  \/ \E r \in Requests, i \in 1..MaxCalls : run_tool(r, i)
  \/ \E r \in Requests : tool_node_join(r)
  \/ \E r \in Requests : Disconnect(r)
  \/ Crash

Spec == Init /\ [][Next]_vars

(***************************************************************************)
(* Requests handled in parallel (the endpoint of main.py is a plain def,   *)
(* which the server runs on a thread of its own per request), with a model *)
(* that asks for one fixed tool call at most.                              *)
(***************************************************************************)
ConcResponses(r) ==
  IF req[r].round = 0 THEN LoopResponses ELSE {Answer, Failure}

NextConc ==
  \/ \E r \in Requests, s \in Sessions : process_input_stream(r, s)
  \/ \E r \in Requests : \E resp \in ConcResponses(r) : chat_node(r, resp)
  \/ \E r \in Requests : tool_node_start(r, "ok")
  \/ \E r \in Requests : run_tool(r, 1)
  \/ \E r \in Requests : tool_node_join(r)

SpecConc == Init /\ [][NextConc]_vars

(***************************************************************************)
(* One turn with a model that keeps asking for a tool.                     *)
(***************************************************************************)
NextLoop ==
  \/ \E s \in Sessions : process_input_stream("r1", s)
  \/ \E resp \in LoopResponses : chat_node("r1", resp)
  \/ tool_node_start("r1", "ok")
  \/ run_tool("r1", 1)
  \/ tool_node_join("r1")

SpecLoop == Init /\ [][NextLoop]_vars

\* the server keeps pulling the generator of a connected caller, and the
\* model and the tools answer or fail
LiveLoop == SpecLoop /\ WF_vars(NextLoop)

(***************************************************************************)
(* A tool invoked on its own.                                              *)
(***************************************************************************)
InitTools ==
  /\ store = [s \in Sessions |-> <<>>]
  /\ req = [r \in Requests |-> Idle]
  /\ results = [r \in Requests |-> <<>>]
  /\ stream = [r \in Requests |-> <<>>]
  /\ tin \in [name : tools, args : ToolArgs, ds : Downstream]
  /\ tout = NoResult

invoke ==
  /\ tout = NoResult
  /\ tout' = tool_invoke(tin.name, tin.args, tin.ds)
  /\ UNCHANGED <<store, req, results, stream, tin>>

NextTools == invoke

SpecTools == InitTools /\ [][NextTools]_vars

(***************************************************************************)
(* Properties.                                                             *)
(***************************************************************************)
Last(seq) == seq[Len(seq)]

\* the ids of the tool calls of msgs that no later tool message answers
Unresolved(msgs) ==
  {id \in UNION {{msgs[k].calls[i].id : i \in DOMAIN msgs[k].calls} :
                   k \in DOMAIN msgs} :
     \A k \in DOMAIN msgs :
       (\E i \in DOMAIN msgs[k].calls : msgs[k].calls[i].id = id)
         => ~\E j \in (k + 1)..Len(msgs) :
               msgs[j].role = "tool" /\ msgs[j].tool_call_id = id}

\* C1: every tool invocation of a turn of session S that takes a user_id is
\* made with user_id = S, whatever user_id the model's request carried
C1_SessionIdentity ==
  \A r \in Requests : \A i \in DOMAIN results[r] :
    (results[r][i] # Pending /\ results[r][i].user_id \in Sessions)
      => results[r][i].user_id = req[r].sid

\* the messages msgs end with an assistant message of n >= 1 tool calls
\* followed by exactly n tool messages, the i-th answering the i-th call
AnsweredInOrder(msgs) ==
  \E n \in 1..(Len(msgs) - 1) :
    LET a == msgs[Len(msgs) - n]
    IN /\ a.role = "ai"
       /\ Len(a.calls) = n
       /\ \A i \in 1..n :
            /\ msgs[Len(msgs) - n + i].role = "tool"
            /\ msgs[Len(msgs) - n + i].tool_call_id = a.calls[i].id

AnswersWithoutTool(r) ==
  /\ req[r].pc = "chat" /\ req[r].round = 0
  /\ req'[r].pc = "done"
  /\ Len(req'[r].msgs) > Len(req[r].msgs)

C4_NoLostMessage ==
  \A r \in Requests :
    req[r].pc = "done"
      => \A k \in DOMAIN req[r].msgs :
           req[r].msgs[k].turn = r
             => \E j \in DOMAIN store[req[r].sid] :
                  store[req[r].sid][j] = req[r].msgs[k]

\* C5: after a crash that left tool calls pending, the next turn of the
\* session does not invoke the model before they are answered
C5_ResumesPending ==
  \A r \in Requests :
    (/\ req[r].pc = "chat" /\ req[r].step = 0
     /\ \E q \in Requests : req[q].pc = "crashed" /\ req[q].sid = req[r].sid)
      => Unresolved(req[r].msgs) = {}

\* C6: no fragment handed to the caller is the content of a tool message
C6_NoToolFragment ==
  \A r \in Requests : \A k \in DOMAIN stream[r] : stream[r][k] # "tool"

\* a step of request r in which the model invocation fails
FailedModelStep(r) ==
  /\ req[r].pc = "chat" /\ ~OutOfSteps(r) /\ req[r].connected
  /\ req'[r].pc = "done"
  /\ stream'[r] # Append(stream[r], "model")

\* C7: a failed model invocation hands the connected caller exactly one
\* error fragment, ends the stream normally, persists no assistant message
\* and leaves the checkpoint written before it as the state of the session
C7_ModelFailure ==
  [][\A r \in Requests :
       FailedModelStep(r)
         => /\ stream'[r] # <<>> /\ Last(stream'[r]) = "error"
            /\ Cardinality({k \in DOMAIN stream'[r] : stream'[r][k] = "error"}) = 1
            /\ \A k \in DOMAIN stream[r] : stream'[r][k] = stream[r][k]
            /\ store' = store
            /\ req'[r].msgs = req[r].msgs
            /\ store'[req[r].sid] = req[r].msgs
            /\ Last(store'[req[r].sid]).role # "ai"]_vars

\* C7 witness: a turn has ended on a failure of the model after a dispatch
C7_Witness ==
  \E r \in Requests :
    /\ req[r].pc = "done" /\ req[r].connected /\ req[r].round > 0
    /\ stream[r] # <<>> /\ Last(stream[r]) = "error"
    /\ Last(store[req[r].sid]).role = "tool"

\* the turn of r1 never runs more than RecursionLimit supersteps, and when
\* it has ended with tool calls unserved it was stopped at the limit: the
\* caller has the error fragment and every message added before is persisted
C8_Bounded ==
  /\ req["r1"].step <= RecursionLimit
  /\ (req["r1"].pc = "done" /\ Last(req["r1"].msgs).calls # NoCalls)
       => /\ req["r1"].step = RecursionLimit
          /\ stream["r1"] # <<>> /\ Last(stream["r1"]) = "error"
          /\ store[req["r1"].sid] = req["r1"].msgs
          /\ Len(req["r1"].msgs) = 2 + RecursionLimit

\* C8: every turn ends, a model that keeps asking for tools being stopped at
\* the limit of supersteps with an error fragment and its messages persisted
C8_Terminates == [](C8_Bounded) /\ <>(req["r1"].pc = "done")

\* C8 witness: a turn was stopped at the limit
C8_Witness ==
  /\ req["r1"].pc = "done" /\ req["r1"].step = RecursionLimit
  /\ Last(req["r1"].msgs).calls # NoCalls
  /\ Last(stream["r1"]) = "error"

\* C9: a turn whose caller has gone still runs to its end
C9_DisconnectedTurnFinishes ==
  \A r \in Requests :
    (~req[r].connected /\ ~Active(r) /\ req[r].pc # "crashed")
      => req[r].pc = "done"

\* the tools C10 names
ClaimedTools == tools \ {"generate_spending_feedback"}

\* C10: every invocation of a bound tool returns the {status, data, message}
\* envelope with status success or error, and never raises
C10_UniformEnvelope ==
  (tout # NoResult /\ tin.name \in ClaimedTools)
    => /\ ~tout.raised
       /\ tout.envelope
       /\ tout.status \in {"success", "error"}

\* C11: whenever the model is about to be invoked, every tool call of the
\* messages it is given has exactly one tool message with its id after it
C11_EveryRequestAnswered ==
  \A r \in Requests :
    req[r].pc = "chat"
      => \A k \in DOMAIN req[r].msgs : \A i \in DOMAIN req[r].msgs[k].calls :
           Cardinality({j \in (k + 1)..Len(req[r].msgs) :
                          /\ req[r].msgs[j].role = "tool"
                          /\ req[r].msgs[j].tool_call_id = req[r].msgs[k].calls[i].id})
             = 1

\* s is t or the beginning of t
IsPrefix(s, t) == Len(s) <= Len(t) /\ SubSeq(t, 1, Len(s)) = s

\* C12: every step leaves the persisted messages of each session with the
\* messages persisted before it as their beginning
C12_AppendOnly ==
  [][\A s \in Sessions : IsPrefix(store[s], store'[s])]_vars

\* C13: a step of a turn changes the persisted messages of no other session
\* than its own, and while no other request is on its session the persisted
\* messages of its session are those the turn has built by itself
C13_SessionsIndependent ==
  [][\A r \in Requests :
       req'[r] # req[r]
         => /\ \A s \in Sessions \ {req'[r].sid} : store'[s] = store[s]
            /\ (\A q \in Requests \ {r} : req'[q].sid # req'[r].sid)
                 => store'[req'[r].sid] = req'[r].msgs]_vars

\* C13 witness: two turns of different sessions are running at once, each
\* past its first model step, and each session holds its own turn's messages
C13_Witness ==
  /\ req["r1"].pc = "dispatch" /\ req["r2"].pc = "chat" /\ req["r2"].round > 0
  /\ req["r1"].sid # req["r2"].sid
  /\ store[req["r1"].sid] = req["r1"].msgs
  /\ store[req["r2"].sid] = req["r2"].msgs

\* C14: an add_goal_tool request that carries user_id and goal_text, with
\* the database answering, inserts the goal of that user and text and
\* returns a success envelope
C14_AddGoalInserts ==
  (tout # NoResult /\ tin.name = "add_goal_tool" /\ tin.ds = "ok")
    => /\ required_params(tin.name) \subseteq args_schema(tin.name)
       /\ tout.envelope /\ tout.status = "success"
       /\ tout.insert = <<"goals", tin.args.user_id, tin.args.goal_text>>

====
